---- MODULE Spec2Model ----
(***************************************************************************)
(* lib-migrations-sql: the SQL migration (src/src/migration.rs), the       *)
(* SQLite-backed ledger (src/src/sqlite.rs) and the runner of              *)
(* lib_migrations_core that drives them.                                   *)
(*                                                                         *)
(* Spec is a caller driving a SqliteStore directly, as test_sqlite_store   *)
(* does.  SpecRunner is a MigrationRunner that owns the store and a        *)
(* registry, as test_full_migration_flow does, over a database that        *)
(* earlier runs may have used; SpecFresh is the same runner over a new     *)
(* database.  SpecRegistration is the construction of a runner.  SpecRace  *)
(* is two runners, each with its own SqliteStore opened on the same        *)
(* database, running migrate step by step.                                 *)
(***************************************************************************)
EXTENDS Integers, Sequences, FiniteSets

VARIABLES
    conn,       \* SqliteStore.conn: the database behind the store
    registry,   \* the runner's registered SqlMigrations
    ctx,        \* the context the migrations run on: what their SQL has done to it
    runners,    \* SpecRace: where each of the two runners is in its migrate
    last,       \* history: the last call, its inputs, its result, the state before it
    rt          \* history: progress of an apply-then-roll-back round trip

vars == <<conn, registry, ctx, runners, last, rt>>

(***************************************************************************)
(* Versions.  A version is a u64.  The model samples both halves of the    *)
(* u64 range: the versions 0 .. MaxLow of the bottom half and the first    *)
(* version of the top half, Half, which stands for 2^63; Modulus stands    *)
(* for 2^64.                                                               *)
(***************************************************************************)
MaxLow == 1

\* The direct caller of the store keeps at most MaxRows rows in the ledger.
MaxRows == 2

\* A registry holds at most MaxMigrations migrations.
MaxMigrations == 2

Half == MaxLow + 1

Modulus == 2 * Half

Versions == 0 .. Half

\* Mutant of AsI64: a checked conversion that clamps to i64::MAX instead of the
\* wrapping `as i64`.
AsI64Clamped(u) == IF u >= Half THEN Half - 1 ELSE u

\* `version as i64`: values with the top bit set wrap to negative numbers.
AsI64(u) == IF u >= Half THEN u - Modulus ELSE u

\* `row.get::<_, i64>(..)? as u64`: negative numbers wrap back to the top half.
AsU64(i) == IF i < 0 THEN i + Modulus ELSE i

Names == {"first", "create_users"}

\* What SystemTime::now() may read: -1 stands for a clock set before UNIX_EPOCH.
SystemTimes == {-1, 1}

\* SqliteStore::now: seconds since the epoch, 0 when duration_since fails.
now(clock) == IF clock < 0 THEN 0 ELSE clock

(***************************************************************************)
(* The _migrations table.  conn.has_table says whether the table exists;   *)
(* conn.rows is its content, one row per stored key, the key being the     *)
(* INTEGER PRIMARY KEY column `version` (a signed 64-bit integer).         *)
(***************************************************************************)
NewConnection == [has_table |-> FALSE, rows |-> {}]

Keys(c) == {r.version : r \in c.rows}

\* Mutant of init: DROP TABLE IF EXISTS followed by CREATE TABLE, which empties
\* an existing ledger.
init_recreate(c, sqlite_ok) ==
    IF sqlite_ok
    THEN [ok |-> TRUE, conn |-> [has_table |-> TRUE, rows |-> {}]]
    ELSE [ok |-> FALSE, conn |-> c]

\* SqliteStore::init: CREATE TABLE IF NOT EXISTS.
init(c, sqlite_ok) ==
    IF sqlite_ok
    THEN [ok |-> TRUE, conn |-> [c EXCEPT !.has_table = TRUE]]
    ELSE [ok |-> FALSE, conn |-> c]

\* ORDER BY version: ascending on the stored, signed, column.
RECURSIVE OrderByVersion(_)
OrderByVersion(rs) ==
    IF rs = {} THEN <<>>
    ELSE LET r == CHOOSE x \in rs : \A y \in rs : x.version <= y.version
         IN  <<r>> \o OrderByVersion(rs \ {r})

\* Mutant of RowToRecord: a checked conversion that maps a negative key to 0
\* instead of the wrapping `as u64`.
RowToRecordSaturating(r) ==
    [version |-> IF r.version < 0 THEN 0 ELSE r.version, name |-> r.name,
     applied_at |-> AsU64(r.applied_at)]

\* The closure of query_map: a row becomes a MigrationRecord.
RowToRecord(r) ==
    [version |-> AsU64(r.version), name |-> r.name, applied_at |-> AsU64(r.applied_at)]

\* SqliteStore::applied: every row, in the order of the SELECT.
applied(c) ==
    IF ~c.has_table THEN [ok |-> FALSE, records |-> <<>>]
    ELSE LET sorted == OrderByVersion(c.rows)
         IN  [ok |-> TRUE,
              records |-> [i \in 1 .. Len(sorted) |-> RowToRecord(sorted[i])]]

\* Mutant of mark_applied: the parameters of the INSERT in the wrong order, the
\* timestamp bound to the version column.
mark_applied_swapped(c, version, name, clock, sqlite_ok) ==
    IF ~c.has_table \/ ~sqlite_ok \/ AsI64(now(clock)) \in Keys(c)
    THEN [ok |-> FALSE, conn |-> c]
    ELSE [ok |-> TRUE,
          conn |-> [c EXCEPT !.rows = @ \cup
                      {[version |-> AsI64(now(clock)), name |-> name,
                        applied_at |-> AsI64(version)]}]]

\* Mutant of mark_applied: INSERT OR REPLACE, which overwrites the stored row.
mark_applied_or_replace(c, version, name, clock, sqlite_ok) ==
    IF ~c.has_table \/ ~sqlite_ok
    THEN [ok |-> FALSE, conn |-> c]
    ELSE [ok |-> TRUE,
          conn |-> [c EXCEPT !.rows = {r \in @ : r.version # AsI64(version)} \cup
                      {[version |-> AsI64(version), name |-> name,
                        applied_at |-> AsI64(now(clock))]}]]

\* Mutant of mark_applied: a table whose version column is not a key, so that
\* the INSERT of a stored version goes through.
mark_applied_unkeyed(c, version, name, clock, sqlite_ok) ==
    IF ~c.has_table \/ ~sqlite_ok
    THEN [ok |-> FALSE, conn |-> c]
    ELSE [ok |-> TRUE,
          conn |-> [c EXCEPT !.rows = @ \cup
                      {[version |-> AsI64(version), name |-> name,
                        applied_at |-> AsI64(now(clock))]}]]

\* SqliteStore::mark_applied: a plain INSERT; the primary key rejects a second
\* row for a stored key, and a failed statement changes nothing.
mark_applied(c, version, name, clock, sqlite_ok) ==
    IF ~c.has_table \/ ~sqlite_ok \/ AsI64(version) \in Keys(c)
    THEN [ok |-> FALSE, conn |-> c]
    ELSE [ok |-> TRUE,
          conn |-> [c EXCEPT !.rows = @ \cup
                      {[version |-> AsI64(version), name |-> name,
                        applied_at |-> AsI64(now(clock))]}]]

\* Mutant of mark_rolled_back: the DELETE compares the stored key with the
\* version as given, without the cast to i64.
mark_rolled_back_uncast(c, version, sqlite_ok) ==
    IF ~c.has_table \/ ~sqlite_ok
    THEN [ok |-> FALSE, conn |-> c]
    ELSE [ok |-> TRUE,
          conn |-> [c EXCEPT !.rows = {r \in @ : r.version # version}]]

\* Mutant of mark_rolled_back: `version > ?1` in the WHERE clause of the DELETE.
mark_rolled_back_above(c, version, sqlite_ok) ==
    IF ~c.has_table \/ ~sqlite_ok
    THEN [ok |-> FALSE, conn |-> c]
    ELSE [ok |-> TRUE,
          conn |-> [c EXCEPT !.rows = {r \in @ : ~(r.version > AsI64(version))}]]

\* SqliteStore::mark_rolled_back: a DELETE; the number of rows it deleted is
\* dropped, so deleting nothing is a success.
mark_rolled_back(c, version, sqlite_ok) ==
    IF ~c.has_table \/ ~sqlite_ok
    THEN [ok |-> FALSE, conn |-> c]
    ELSE [ok |-> TRUE,
          conn |-> [c EXCEPT !.rows = {r \in @ : r.version # AsI64(version)}]]

\* MigrationStore::current_version (provided method of the trait): the largest
\* version among the records of applied(), 0 when there are none.
RECURSIVE MaxVersion(_)
MaxVersion(records) ==
    IF records = <<>> THEN 0
    ELSE LET rest == MaxVersion(Tail(records))
         IN  IF Head(records).version > rest THEN Head(records).version ELSE rest

current_version(c) ==
    LET a == applied(c)
    IN  [ok |-> a.ok, version |-> MaxVersion(a.records)]

(***************************************************************************)
(* History variables.                                                      *)
(***************************************************************************)
NoError == [kind |-> "None", version |-> 0]

StoreError == [kind |-> "Store", version |-> 0]

\* What the environment does to one call: nothing ("none"), or the executor call
\* ("execute") or the store write ("sqlite") of step `at` fails.
NoFault == [kind |-> "none", at |-> 0]

NoCall ==
    [op |-> "none", version |-> 0, name |-> "", fault |-> NoFault, error |-> NoError,
     count |-> 0, log |-> <<>>, before |-> NewConnection]

NoRoundTrip == [stage |-> "idle", version |-> 0, before |-> NewConnection]

\* SqliteContext::open_in_memory: a context no migration has run on.  `applied`
\* holds the versions whose up SQL is in effect, `redone` the versions whose up
\* SQL was executed again while it was in effect.
NewContext == [applied |-> {}, redone |-> {}]

\* The two runners of SpecRace.
Instances == {1, 2}

Idle == [pc |-> "idle", plan |-> <<>>, count |-> 0, error |-> NoError]

NoRunners == [i \in Instances |-> Idle]

StoreCall(op, version, name, sqlite_ok, ok, before) ==
    [op |-> op, version |-> version, name |-> name,
     fault |-> IF sqlite_ok THEN NoFault ELSE [kind |-> "sqlite", at |-> 1],
     error |-> IF ok THEN NoError ELSE StoreError,
     count |-> 0, log |-> <<>>, before |-> before]

(***************************************************************************)
(* A caller driving the store directly.                                    *)
(***************************************************************************)
Init ==
    /\ conn = NewConnection
    /\ registry = {}
    /\ ctx = NewContext
    /\ runners = NoRunners
    /\ last = NoCall
    /\ rt = NoRoundTrip

StoreInit ==
    \E sqlite_ok \in BOOLEAN :
        LET r == init(conn, sqlite_ok)
        IN  /\ conn' = r.conn
            /\ last' = StoreCall("init", 0, "", sqlite_ok, r.ok, conn)
            /\ rt' = NoRoundTrip
            /\ UNCHANGED <<registry, ctx, runners>>

\* The round trip starts with a successful mark_applied of a version that is
\* above current_version().
StoreMarkApplied ==
    \E version \in Versions, name \in Names, clock \in SystemTimes, sqlite_ok \in BOOLEAN :
        LET r == mark_applied(conn, version, name, clock, sqlite_ok)
        IN  /\ Cardinality(r.conn.rows) <= MaxRows
            /\ conn' = r.conn
            /\ last' = StoreCall("mark_applied", version, name, sqlite_ok, r.ok, conn)
            /\ rt' = IF r.ok /\ version > current_version(conn).version
                     THEN [stage |-> "applied", version |-> version, before |-> conn]
                     ELSE NoRoundTrip
            /\ UNCHANGED <<registry, ctx, runners>>

\* ... and ends with a successful mark_rolled_back of the same version.
StoreMarkRolledBack ==
    \E version \in Versions, sqlite_ok \in BOOLEAN :
        LET r == mark_rolled_back(conn, version, sqlite_ok)
        IN  /\ conn' = r.conn
            /\ last' = StoreCall("mark_rolled_back", version, "", sqlite_ok, r.ok, conn)
            /\ rt' = IF r.ok /\ rt.stage = "applied" /\ rt.version = version
                     THEN [rt EXCEPT !.stage = "rolled_back"]
                     ELSE NoRoundTrip
            /\ UNCHANGED <<registry, ctx, runners>>

Next == StoreInit \/ StoreMarkApplied \/ StoreMarkRolledBack

Spec == Init /\ [][Next]_vars

(***************************************************************************)
(* Properties of the store (checked under Spec).                           *)
(***************************************************************************)
VersionsIn(records) == {records[i].version : i \in DOMAIN records}

LargestOf(vs) == IF vs = {} THEN 0 ELSE CHOOSE m \in vs : \A v \in vs : v <= m

\* C6: mark_applied for a version that already has a record returns an error, and
\* applied() after the failed call is what it was before it: same records, same
\* names, same applied_at.
C6_DuplicateRejected ==
    (/\ last.op = "mark_applied"
     /\ last.version \in VersionsIn(applied(last.before).records))
        => /\ last.error = StoreError
           /\ applied(conn) = applied(last.before)

\* A duplicate mark_applied, under another name, that SQLite itself accepted to run.
C6_Witness ==
    /\ last.op = "mark_applied"
    /\ last.fault = NoFault
    /\ last.error = StoreError
    /\ \E i \in DOMAIN applied(last.before).records :
          /\ applied(last.before).records[i].version = last.version
          /\ applied(last.before).records[i].name # last.name

\* C7: mark_rolled_back for a version that has no record returns an error and
\* leaves the ledger unchanged.
C7_AbsentRollbackFails ==
    (/\ last.op = "mark_rolled_back"
     /\ last.version \notin VersionsIn(applied(last.before).records))
        => /\ last.error # NoError
           /\ applied(conn) = applied(last.before)

\* C8: applied() returns the records in ascending order of their u64 versions.
C8_AppliedAscendingUnsigned ==
    LET records == applied(conn).records
    IN  \A i, j \in DOMAIN records :
            i < j => records[i].version < records[j].version

C11_InitIdempotent ==
    (last.op = "init" /\ last.before.has_table)
        => /\ applied(conn) = applied(last.before)
           /\ conn = last.before
           /\ last.fault = NoFault => last.error = NoError

\* A second init that succeeded over a ledger that held two records or more.
C11_Witness ==
    /\ last.op = "init"
    /\ last.error = NoError
    /\ last.before.has_table
    /\ Cardinality(last.before.rows) >= 2
    /\ Len(applied(conn).records) >= 2

\* Every u64 of the model, 0 .. 2^64 - 1.
AllVersions == 0 .. Modulus - 1

\* C19: a successful mark_applied(v, name) adds to applied() one record, whose
\* version is exactly v, and changes no other; a successful mark_rolled_back(v)
\* removes the record of v and no other; and over the whole u64 range the cast
\* to the stored i64 key and back is the identity, so no two versions share a
\* stored key.
C19_VersionRoundTrip ==
    /\ \A u \in AllVersions :
          /\ AsI64(u) \in -Half .. Half - 1
          /\ AsU64(AsI64(u)) = u
          /\ \A v \in AllVersions : AsI64(u) = AsI64(v) => u = v
    /\ (last.op = "mark_applied" /\ last.error = NoError) =>
          LET before == applied(last.before).records
              after == applied(conn).records
              new == {i \in DOMAIN after : after[i].version = last.version}
          IN  /\ Cardinality(new) = 1
              /\ \A i \in new : after[i].name = last.name
              /\ {after[i] : i \in DOMAIN after \ new} = {before[i] : i \in DOMAIN before}
              /\ Len(after) = Len(before) + 1
    /\ (last.op = "mark_rolled_back" /\ last.error = NoError) =>
          LET before == applied(last.before).records
              after == applied(conn).records
          IN  /\ {after[i] : i \in DOMAIN after} =
                     {before[i] : i \in DOMAIN before} \
                         {r \in {before[i] : i \in DOMAIN before} : r.version = last.version}
              /\ Len(before) - Len(after) =
                     IF last.version \in VersionsIn(before) THEN 1 ELSE 0

\* The record of the top-half version was removed and the record of a low
\* version stayed.
C19_Witness ==
    /\ last.op = "mark_rolled_back"
    /\ last.error = NoError
    /\ last.version = Half
    /\ Half \in VersionsIn(applied(last.before).records)
    /\ Half \notin VersionsIn(applied(conn).records)
    /\ applied(conn).records # <<>>


(***************************************************************************)
(* SqlMigration (src/src/migration.rs).  A statement batch is opaque to    *)
(* the engine: it is modelled by the migration and direction it belongs    *)
(* to.  Option<String> is a sequence of length at most one.                *)
(***************************************************************************)
None == <<>>

Some(x) == <<x>>

UpSql(version) == [dir |-> "up", version |-> version]

DownSql(version) == [dir |-> "down", version |-> version]

Failed(version) == [kind |-> "Failed", version |-> version]

RollbackNotSupported(version) == [kind |-> "RollbackNotSupported", version |-> version]

MigrationNotFound(version) == [kind |-> "MigrationNotFound", version |-> version]

\* SqlMigration::new: PreDeploy, no rollback SQL.
new(version, name, up_sql) ==
    [version |-> version, name |-> name, phase |-> "PreDeploy",
     up_sql |-> up_sql, down_sql |-> None]

\* SqlMigration::with_down
with_down(m, down_sql) == [m EXCEPT !.down_sql = Some(down_sql)]

\* SqlMigration::has_rollback
has_rollback(m) == m.down_sql # None

\* Mutant of can_rollback: the capability is reported for every migration.
can_rollback_always(m) == TRUE

\* Migration::can_rollback for SqlMigration
can_rollback(m) == m.down_sql # None

\* Mutant of Migration_version: the version narrowed to its low bits.
Migration_version_truncated(m) == m.version % Half

\* Migration::version for SqlMigration
Migration_version(m) == m.version

\* Migration::name for SqlMigration
Migration_name(m) == m.name

\* Mutant of apply: the executor's error is dropped.
apply_ignoring_error(m, execute_ok) ==
    [executed |-> <<[sql |-> m.up_sql, ok |-> execute_ok]>>, error |-> NoError]

\* Migration::apply for SqlMigration: hands up_sql to the executor and maps the
\* executor's error to Failed(version).  `executed` is what the executor was given.
apply(m, execute_ok) ==
    [executed |-> <<[sql |-> m.up_sql, ok |-> execute_ok]>>,
     error |-> IF execute_ok THEN NoError ELSE Failed(m.version)]

\* Mutant of rollback: the forward SQL is handed to the executor.
rollback_running_up(m, execute_ok) ==
    IF m.down_sql # None
    THEN [executed |-> <<[sql |-> m.up_sql, ok |-> execute_ok]>>,
          error |-> IF execute_ok THEN NoError ELSE Failed(m.version)]
    ELSE [executed |-> <<>>, error |-> RollbackNotSupported(m.version)]

\* Mutant of rollback: a migration without rollback SQL is rolled back by doing
\* nothing.
rollback_silent(m, execute_ok) ==
    IF m.down_sql # None
    THEN [executed |-> <<[sql |-> m.down_sql[1], ok |-> execute_ok]>>,
          error |-> IF execute_ok THEN NoError ELSE Failed(m.version)]
    ELSE [executed |-> <<>>, error |-> NoError]

\* Migration::rollback for SqlMigration: hands down_sql to the executor when
\* there is one, RollbackNotSupported(version) without a call otherwise.
rollback(m, execute_ok) ==
    IF m.down_sql # None
    THEN [executed |-> <<[sql |-> m.down_sql[1], ok |-> execute_ok]>>,
          error |-> IF execute_ok THEN NoError ELSE Failed(m.version)]
    ELSE [executed |-> <<>>, error |-> RollbackNotSupported(m.version)]

\* SqlExecutor::execute for SqliteContext, as far as the runner's bookkeeping is
\* concerned: a batch that ran makes its migration's up SQL take effect (up) or
\* takes it back (down); a batch that failed is taken to have changed nothing.
execute(c, e) ==
    IF ~e.ok THEN c
    ELSE IF e.sql.dir = "up"
    THEN [applied |-> c.applied \cup {e.sql.version},
          redone |-> c.redone \cup (c.applied \cap {e.sql.version})]
    ELSE [c EXCEPT !.applied = @ \ {e.sql.version}]

\* The context after the executor was handed the batches of `log`, in order.
RECURSIVE Effects(_, _)
Effects(c, log) ==
    IF log = <<>> THEN c ELSE Effects(execute(c, Head(log)), Tail(log))

(***************************************************************************)
(* MigrationRunner (lib_migrations_core), over a SqliteStore.              *)
(* Step i of a run is its i-th migration: the executor call, then the      *)
(* store write.                                                            *)
(***************************************************************************)
\* The faults that can hit a run of `steps` steps.
Faults(steps) ==
    {NoFault} \cup
    {[kind |-> k, at |-> i] : k \in {"execute", "sqlite"}, i \in 1 .. steps}

RegistryVersions(reg) == {Migration_version(m) : m \in reg}

\* The registry in ascending version order.
RECURSIVE Ascending(_)
Ascending(ms) ==
    IF ms = {} THEN <<>>
    ELSE LET m == CHOOSE x \in ms :
                      \A y \in ms : Migration_version(x) <= Migration_version(y)
         IN  <<m>> \o Ascending(ms \ {m})

\* Versions in descending order.
RECURSIVE Descending(_)
Descending(vs) ==
    IF vs = {} THEN <<>>
    ELSE LET v == CHOOSE x \in vs : \A y \in vs : x >= y
         IN  <<v>> \o Descending(vs \ {v})

RecordedVersions(c) == {AsU64(k) : k \in Keys(c)}

\* MigrationRunner::pending: the registry entries above current_version().
pending(reg, c) ==
    Ascending({m \in reg : Migration_version(m) > current_version(c).version})

RunResult(c, log, count, error) ==
    [conn |-> c, log |-> log, count |-> count, error |-> error]

\* The forward loop of migrate and migrate_to: apply, then mark_applied, and stop
\* at the first error.  `log` and `count` are what the run has done so far.
RECURSIVE ApplyEach(_, _, _, _, _, _, _)
ApplyEach(ms, c, step, fault, clock, log, count) ==
    IF ms = <<>> THEN RunResult(c, log, count, NoError)
    ELSE LET m == Head(ms)
             a == apply(m, ~(fault.kind = "execute" /\ fault.at = step))
             s == mark_applied(c, Migration_version(m), Migration_name(m), clock,
                               ~(fault.kind = "sqlite" /\ fault.at = step))
         IN  IF a.error # NoError THEN RunResult(c, log \o a.executed, count, a.error)
             ELSE IF ~s.ok THEN RunResult(s.conn, log \o a.executed, count, StoreError)
             ELSE ApplyEach(Tail(ms), s.conn, step + 1, fault, clock,
                            log \o a.executed, count + 1)

\* The backward loop of migrate_to: for each recorded version, newest first, find
\* its migration, roll it back, then mark_rolled_back; stop at the first error.
RECURSIVE RollbackEach(_, _, _, _, _, _, _)
RollbackEach(vs, reg, c, step, fault, log, count) ==
    IF vs = <<>> THEN RunResult(c, log, count, NoError)
    ELSE LET v == Head(vs)
             found == {x \in reg : Migration_version(x) = v}
             m == CHOOSE x \in found : TRUE
             r == rollback(m, ~(fault.kind = "execute" /\ fault.at = step))
             s == mark_rolled_back(c, v, ~(fault.kind = "sqlite" /\ fault.at = step))
         IN  IF found = {} THEN RunResult(c, log, count, MigrationNotFound(v))
             ELSE IF r.error # NoError THEN RunResult(c, log \o r.executed, count, r.error)
             ELSE IF ~s.ok THEN RunResult(s.conn, log \o r.executed, count, StoreError)
             ELSE RollbackEach(Tail(vs), reg, s.conn, step + 1, fault,
                               log \o r.executed, count + 1)

\* MigrationRunner::migrate
migrate(reg, c, fault, clock) ==
    IF ~current_version(c).ok THEN RunResult(c, <<>>, 0, StoreError)
    ELSE ApplyEach(pending(reg, c), c, 1, fault, clock, <<>>, 0)

\* What migrate_to selects when it goes forward: the registry entries with
\* current < version <= target, ascending.
ForwardPlan(reg, c, target) ==
    Ascending({m \in reg :
        /\ current_version(c).version < Migration_version(m)
        /\ Migration_version(m) <= target})

\* What migrate_to selects when it goes backward: the recorded versions with
\* target < version <= current, descending.
BackwardPlan(c, target) ==
    Descending({v \in RecordedVersions(c) :
        target < v /\ v <= current_version(c).version})

\* MigrationRunner::migrate_to
migrate_to(reg, c, target, fault, clock) ==
    LET current == current_version(c)
    IN  IF ~current.ok THEN RunResult(c, <<>>, 0, StoreError)
        ELSE IF target > current.version
        THEN ApplyEach(ForwardPlan(reg, c, target), c, 1, fault, clock, <<>>, 0)
        ELSE IF target < current.version
        THEN RollbackEach(BackwardPlan(c, target), reg, c, 1, fault, <<>>, 0)
        ELSE RunResult(c, <<>>, 0, NoError)

\* The number of steps a run has, so that a fault names a step of the run.
Steps(reg, c, op, target) ==
    IF ~c.has_table THEN 0
    ELSE IF op = "migrate" THEN Len(pending(reg, c))
    ELSE IF target > current_version(c).version THEN Len(ForwardPlan(reg, c, target))
    ELSE Len(BackwardPlan(c, target))

(***************************************************************************)
(* A runner that owns the store.  The registry is any set of at most       *)
(* MaxMigrations SqlMigrations with distinct versions; the store is a new  *)
(* database or one that earlier runs left at most MaxRows records in.      *)
(***************************************************************************)
Migrations ==
    {new(v, "create_users", UpSql(v)) : v \in Versions} \cup
    {with_down(new(v, "create_users", UpSql(v)), DownSql(v)) : v \in Versions}

Registries ==
    {reg \in SUBSET Migrations :
        /\ Cardinality(reg) <= MaxMigrations
        /\ \A a, b \in reg : a.version = b.version => a = b}

PriorLedgers ==
    {[has_table |-> TRUE,
      rows |-> {[version |-> AsI64(v), name |-> "first", applied_at |-> 0] : v \in vs}] :
        vs \in {s \in SUBSET Versions : Cardinality(s) <= MaxRows}}

RunnerCall(op, target, fault, r, before) ==
    [op |-> op, version |-> target, name |-> "", fault |-> fault, error |-> r.error,
     count |-> r.count, log |-> r.log, before |-> before]

InitRunner ==
    /\ conn \in {NewConnection} \cup PriorLedgers
    /\ registry \in Registries
    /\ ctx = NewContext
    /\ runners = NoRunners
    /\ last = NoCall
    /\ rt = NoRoundTrip

\* MigrationRunner::init delegates to the store.
RunnerInit ==
    \E sqlite_ok \in BOOLEAN :
        LET r == init(conn, sqlite_ok)
        IN  /\ conn' = r.conn
            /\ last' = StoreCall("init", 0, "", sqlite_ok, r.ok, conn)
            /\ UNCHANGED <<registry, ctx, runners, rt>>

\* MigrateWith and MigrateToWith are the calls of the runner.  With `observed`
\* the context the migrations ran on is kept in ctx; without it the call is
\* known by the executor log in `last` alone.
MigrateWith(observed) ==
    \E fault \in Faults(Steps(registry, conn, "migrate", 0)), clock \in SystemTimes :
        \E r \in {migrate(registry, conn, fault, clock)} :
            /\ conn' = r.conn
            /\ ctx' = IF observed THEN Effects(ctx, r.log) ELSE ctx
            /\ last' = RunnerCall("migrate", 0, fault, r, conn)
            /\ UNCHANGED <<registry, runners, rt>>

MigrateToWith(observed) ==
    \E target \in Versions :
        \E fault \in Faults(Steps(registry, conn, "migrate_to", target)),
           clock \in SystemTimes :
            \E r \in {migrate_to(registry, conn, target, fault, clock)} :
                /\ conn' = r.conn
                /\ ctx' = IF observed THEN Effects(ctx, r.log) ELSE ctx
                /\ last' = RunnerCall("migrate_to", target, fault, r, conn)
                /\ UNCHANGED <<registry, runners, rt>>

Migrate == MigrateWith(FALSE)

MigrateTo == MigrateToWith(FALSE)

NextRunner == RunnerInit \/ Migrate \/ MigrateTo

SpecRunner == InitRunner /\ [][NextRunner]_vars

(***************************************************************************)
(* The construction of a runner: MigrationRunner::new(store) followed by   *)
(* calls of add, as in test_full_migration_flow, and init.  add takes the  *)
(* runner by value and returns the runner (the calls are chained and the   *)
(* result is used as the runner), so it has no error to return.  What it   *)
(* does with a migration whose version is already registered is not in     *)
(* this repository; the model takes every outcome that signature allows:   *)
(* the migration is held next to the registered one, it replaces it, it is *)
(* dropped, or the call panics.                                            *)
(***************************************************************************)
DuplicateVersion(version) == [kind |-> "DuplicateVersion", version |-> version]

Panicked == [kind |-> "panic", version |-> 0]

Added(reg) == [registry |-> reg, error |-> NoError]

add(reg, m) ==
    IF Migration_version(m) \notin RegistryVersions(reg)
    THEN {Added(reg \cup {m})}
    ELSE {Added(reg \cup {m}),
          Added({x \in reg : Migration_version(x) # Migration_version(m)} \cup {m}),
          Added(reg),
          [registry |-> reg, error |-> Panicked]}

Add ==
    \E m \in Migrations :
        \E r \in add(registry, m) :
            /\ Cardinality(r.registry) <= MaxMigrations
            /\ registry' = r.registry
            /\ last' = [op |-> "add", version |-> Migration_version(m),
                        name |-> Migration_name(m), fault |-> NoFault,
                        error |-> r.error, count |-> 0, log |-> <<>>, before |-> conn]
            /\ UNCHANGED <<conn, ctx, runners, rt>>

NextRegistration == Add \/ RunnerInit

SpecRegistration == Init /\ [][NextRegistration]_vars

\* C12: adding a migration whose version is in the registry is rejected with
\* DuplicateVersion(version) and leaves the registry as it was, so that no
\* registry holds two migrations with one version.
C12_DuplicateVersionRejected ==
    [][(last'.op = "add" /\ last'.version \in RegistryVersions(registry))
          => /\ last'.error = DuplicateVersion(last'.version)
             /\ registry' = registry
             /\ \A a, b \in registry' : a.version = b.version => a = b]_vars

(***************************************************************************)
(* The same runner from its construction on: a new database for the store, *)
(* a new context, and the context observed.                                *)
(***************************************************************************)
InitFresh ==
    /\ conn = NewConnection
    /\ registry \in Registries
    /\ ctx = NewContext
    /\ runners = NoRunners
    /\ last = NoCall
    /\ rt = NoRoundTrip

MigrateObserved == MigrateWith(TRUE)

MigrateToObserved == MigrateToWith(TRUE)

NextFresh == RunnerInit \/ MigrateObserved \/ MigrateToObserved

SpecFresh == InitFresh /\ [][NextFresh]_vars

(***************************************************************************)
(* Properties of the runner (checked under SpecRunner).  They speak of the *)
(* last call: last.before is the store before it, conn the store after.    *)
(***************************************************************************)
Recorded(c) == VersionsIn(applied(c).records)

\* The registry entries that were pending before the last call.
PendingBefore ==
    {m \in registry : m.version > current_version(last.before).version}

LogVersions == [i \in DOMAIN last.log |-> last.log[i].sql.version]

\* The executor was handed `sql` during the last call.
Ran(sql) == \E i \in DOMAIN last.log : last.log[i].sql = sql

\* C1: when the up action of the k-th pending migration fails in the executor
\* during migrate, no later pending migration's up action is executed, the
\* reported count is k-1, and applied() holds the prior records plus exactly the
\* first k-1 pending versions.
C1_HaltOnFailure ==
    last.op = "migrate" =>
        \A m \in PendingBefore :
            LET k == Cardinality({x \in PendingBefore : x.version <= m.version})
            IN  (\E i \in DOMAIN last.log :
                    last.log[i] = [sql |-> m.up_sql, ok |-> FALSE])
                => /\ \A x \in PendingBefore : x.version > m.version => ~Ran(x.up_sql)
                   /\ last.error # NoError
                   /\ last.count = k - 1
                   /\ last.before.rows \subseteq conn.rows
                   /\ Recorded(conn) = Recorded(last.before) \cup
                          {x.version : x \in {y \in PendingBefore : y.version < m.version}}

\* The second pending migration failed, over a ledger that already held records.
C1_Witness ==
    /\ last.op = "migrate"
    /\ last.error.kind = "Failed"
    /\ last.count = 1
    /\ last.before.rows # {}

\* C2 as stated: pending() is exactly the registry entries above
\* current_version(), ascending, and so the whole registry when the ledger is
\* empty.
C2_PendingOriginal ==
    conn.has_table =>
        LET p == pending(registry, conn)
        IN  /\ {p[i] : i \in DOMAIN p} =
                   {m \in registry : m.version > current_version(conn).version}
            /\ \A i, j \in DOMAIN p : i < j => p[i].version < p[j].version
            /\ conn.rows = {} => {p[i] : i \in DOMAIN p} = registry

\* C2 as amended: pending() is exactly the registry entries above
\* current_version(), ascending; with an empty ledger that is every registry
\* entry whose version is not 0.
C2_Pending ==
    conn.has_table =>
        LET p == pending(registry, conn)
        IN  /\ {p[i] : i \in DOMAIN p} =
                   {m \in registry : m.version > current_version(conn).version}
            /\ \A i, j \in DOMAIN p : i < j => p[i].version < p[j].version
            /\ conn.rows = {} =>
                   {p[i] : i \in DOMAIN p} = {m \in registry : m.version # 0}

\* After a migrate that halted: a ledger with records, a registry with entries
\* on both sides of current_version().
C2_Witness ==
    /\ last.op = "migrate"
    /\ last.count >= 1
    /\ conn.rows # {}
    /\ Len(pending(registry, conn)) >= 1
    /\ \E m \in registry : m.version <= current_version(conn).version

\* C3: a backward migrate_to executes down actions only, in strictly descending
\* version order, over the recorded versions with target < version <= current,
\* and removes the record of each one it rolled back; a forward migrate_to
\* executes up actions only, in strictly ascending order, over the registered
\* versions with current < version <= target, and records each one it applied.
\* A run that returns success has gone over exactly those versions.
C3_Directional ==
    (last.op = "migrate_to" /\ last.before.has_table) =>
        LET current == current_version(last.before).version
            target == last.version
            done == {LogVersions[i] : i \in 1 .. last.count}
            back == {v \in Recorded(last.before) : target < v /\ v <= current}
            forth == {m.version : m \in {x \in registry :
                          current < x.version /\ x.version <= target}}
        IN  /\ last.count <= Len(last.log)
            /\ Len(last.log) <= last.count + 1
            /\ \A i \in 1 .. last.count : last.log[i].ok
            /\ target < current =>
                 /\ \A i \in DOMAIN last.log : last.log[i].sql = DownSql(LogVersions[i])
                 /\ \A i, j \in DOMAIN last.log : i < j => LogVersions[i] > LogVersions[j]
                 /\ {LogVersions[i] : i \in DOMAIN last.log} \subseteq back
                 /\ \A v \in back : \A i \in DOMAIN last.log : v > LogVersions[i] => v \in done
                 /\ last.error = NoError => done = back
                 /\ Recorded(conn) = Recorded(last.before) \ done
            /\ target > current =>
                 /\ \A i \in DOMAIN last.log : last.log[i].sql = UpSql(LogVersions[i])
                 /\ \A i, j \in DOMAIN last.log : i < j => LogVersions[i] < LogVersions[j]
                 /\ {LogVersions[i] : i \in DOMAIN last.log} \subseteq forth
                 /\ \A v \in forth : \A i \in DOMAIN last.log : v < LogVersions[i] => v \in done
                 /\ last.error = NoError => done = forth
                 /\ Recorded(conn) = Recorded(last.before) \cup done

\* A backward run that rolled two versions back.
C3_Witness ==
    /\ last.op = "migrate_to"
    /\ last.error = NoError
    /\ last.count = 2
    /\ last.log[1].sql.dir = "down"

\* A migration that was recorded before the last call, lies above its target and
\* has no down SQL.
Irreversible(m) ==
    /\ m.down_sql = None
    /\ last.version < m.version
    /\ m.version \in Recorded(last.before)

\* What C4 says of such a migration: RollbackNotSupported(v), everything above v
\* rolled back and removed, v and everything below still recorded, the executor
\* never invoked for v.
HaltsAt(m) ==
    /\ last.error = RollbackNotSupported(m.version)
    /\ \A w \in Recorded(last.before) :
          w > m.version => w \notin Recorded(conn) /\ Ran(DownSql(w))
    /\ {r \in last.before.rows : AsU64(r.version) <= m.version} \subseteq conn.rows
    /\ \A i \in DOMAIN last.log : LogVersions[i] # m.version

\* C4 as stated: every recorded migration without down SQL above the target
\* halts the run in this way.  It is stated of the runs most favourable to it:
\* every record has its migration registered, and neither the executor nor the
\* store fails.
C4_IrreversibleOriginal ==
    (/\ last.op = "migrate_to"
     /\ last.fault = NoFault
     /\ Recorded(last.before) \subseteq {x.version : x \in registry})
        => \A m \in registry : Irreversible(m) => HaltsAt(m)

\* The rollbacks above m all succeed: each recorded version above it is
\* registered with down SQL and no fault hits its step.
ReachedFirst(m) ==
    LET above == {w \in Recorded(last.before) : w > m.version}
    IN  /\ \A w \in above : \E x \in registry : x.version = w /\ x.down_sql # None
        /\ last.fault.at = 0 \/ last.fault.at > Cardinality(above)

\* C4 as amended: the run halts in this way at the migration without down SQL
\* that it reaches, that is when every rollback above it succeeds.
C4_Irreversible ==
    last.op = "migrate_to" =>
        \A m \in registry : (Irreversible(m) /\ ReachedFirst(m)) => HaltsAt(m)

\* A version above was rolled back, the run halted at v, a version below remains.
C4_Witness ==
    /\ last.op = "migrate_to"
    /\ last.error.kind = "RollbackNotSupported"
    /\ last.count >= 1
    /\ \E w \in Recorded(conn) : w < last.error.version

\* What C5 says of a migrate that succeeded, but for current_version().
MigrateAddsPending ==
    /\ Recorded(conn) = Recorded(last.before) \cup {m.version : m \in PendingBefore}
    /\ last.before.rows \subseteq conn.rows
    /\ last.count = Cardinality(PendingBefore)

\* C5 as stated: ... and current_version() is the highest registered version
\* (of a registry that has one).
C5_MigrateSucceedsOriginal ==
    (last.op = "migrate" /\ last.error = NoError /\ registry # {}) =>
        /\ MigrateAddsPending
        /\ current_version(conn).version = LargestOf({m.version : m \in registry})

\* C5 as amended: ... and current_version() is the highest version among the
\* registered ones and the ones recorded before the call.
C5_MigrateSucceeds ==
    (last.op = "migrate" /\ last.error = NoError) =>
        /\ MigrateAddsPending
        /\ current_version(conn).version =
               LargestOf({m.version : m \in registry} \cup Recorded(last.before))

\* A migrate that applied two migrations over a ledger that already held records.
C5_Witness ==
    /\ last.op = "migrate"
    /\ last.error = NoError
    /\ last.count = 2
    /\ last.before.rows # {}

\* C13: for every registered SqlMigration and either outcome of the executor,
\* can_rollback() and has_rollback() are false exactly when rollback returns
\* RollbackNotSupported(version) without a call of the executor, and true exactly
\* when rollback hands the down SQL, and nothing else, to the executor.  So a
\* backward run executed down SQL only for migrations that can roll back, and
\* reported RollbackNotSupported only for one that cannot.
C13_CanRollbackAgrees ==
    /\ \A m \in registry : \A execute_ok \in BOOLEAN :
          LET r == rollback(m, execute_ok)
              refused == r.error = RollbackNotSupported(Migration_version(m))
              dispatched == /\ Len(r.executed) = 1
                            /\ m.down_sql # None
                            /\ r.executed[1] = [sql |-> m.down_sql[1], ok |-> execute_ok]
          IN  /\ has_rollback(m) = can_rollback(m)
              /\ ~can_rollback(m) <=> (refused /\ r.executed = <<>>)
              /\ can_rollback(m) <=> dispatched
              /\ refused => ~dispatched
    /\ last.op = "migrate_to" =>
          \A m \in registry :
              /\ Ran(DownSql(Migration_version(m))) => can_rollback(m)
              /\ last.error = RollbackNotSupported(Migration_version(m))
                    => ~can_rollback(m)

\* A backward run that rolled back a migration that can roll back and was
\* refused by one that cannot.
C13_Witness ==
    /\ last.op = "migrate_to"
    /\ last.error.kind = "RollbackNotSupported"
    /\ \E m \in registry : ~can_rollback(m) /\ last.error.version = Migration_version(m)
    /\ \E m \in registry : can_rollback(m) /\ Ran(DownSql(Migration_version(m)))

\* A prefix-shaped ledger: its recorded versions are those of the first few
\* registry entries in ascending version order.
PrefixShaped(c) ==
    LET sorted == Ascending(registry)
    IN  \E n \in 0 .. Len(sorted) :
            Recorded(c) = {Migration_version(sorted[i]) : i \in 1 .. n}

\* C17: after a migrate_to that succeeded on a prefix-shaped ledger,
\* current_version() is the largest registered version that is <= target, 0 if
\* there is none; so it is the target when the target is registered or 0; and a
\* call whose target is current_version() succeeds, executes nothing and leaves
\* the ledger as it was.
C17_MigrateToReachesTarget ==
    (last.op = "migrate_to" /\ last.before.has_table /\ PrefixShaped(last.before)) =>
        LET target == last.version
            upto == {v \in RegistryVersions(registry) : v <= target}
        IN  /\ last.error = NoError =>
                  /\ current_version(conn).version = LargestOf(upto)
                  /\ target \in RegistryVersions(registry) \cup {0} =>
                         current_version(conn).version = target
            /\ target = current_version(last.before).version =>
                  /\ last.error = NoError
                  /\ last.log = <<>>
                  /\ conn = last.before

\* A forward run to a target that is not registered stopped, with success, at
\* the registered version below it; the ledger held a record before.
C17_Witness ==
    /\ last.op = "migrate_to"
    /\ last.error = NoError
    /\ PrefixShaped(last.before)
    /\ last.before.rows # {}
    /\ last.count >= 1
    /\ last.version \notin RegistryVersions(registry)
    /\ 0 < current_version(conn).version
    /\ current_version(conn).version < last.version

(***************************************************************************)
(* Properties of the runner and its context (checked under SpecFresh).     *)
(***************************************************************************)
\* C14: the up action of a migration is never executed while its version is
\* recorded in the ledger, and between two executions of the up action of a
\* version there is a successful rollback of that version: no up SQL is run on
\* a context in which it is in effect.
C14_AtMostOnce ==
    /\ \A i \in DOMAIN last.log :
          last.log[i].sql.dir = "up" =>
              /\ LogVersions[i] \notin Recorded(last.before)
              /\ \A j \in DOMAIN last.log : j < i => LogVersions[j] # LogVersions[i]
    /\ ctx.redone = {}

\* The recorded versions are a prefix of the migrations `ms` in ascending version
\* order: below a recorded one, every one is recorded.
PrefixOf(ms, c) ==
    \A a, b \in ms :
        (a.version < b.version /\ b.version \in Recorded(c)) => a.version \in Recorded(c)

\* C15 as stated: from an empty ledger on, whatever calls succeeded or failed,
\* the recorded versions are a prefix of the registry.
C15_NoGapsOriginal == PrefixOf(registry, conn)

\* C15 as amended: ... a prefix of the registered migrations whose version is
\* not 0.
C15_NoGaps == PrefixOf({m \in registry : m.version # 0}, conn)

\* A run that failed has left the first of two registered migrations recorded,
\* the top-half one not.
C15_Witness ==
    /\ last.op \in {"migrate", "migrate_to"}
    /\ last.error # NoError
    /\ \E a, b \in registry :
          /\ 0 < a.version /\ a.version < b.version /\ b.version >= Half
          /\ a.version \in Recorded(conn)
          /\ b.version \notin Recorded(conn)

\* C16: when migrate or migrate_to has returned, with success or with any error,
\* the recorded versions are exactly the versions whose up action ran
\* successfully on the context and was not undone by a successful down action
\* since.
C16_LedgerMatchesEffects ==
    last.op \in {"migrate", "migrate_to"} => Recorded(conn) = ctx.applied

(***************************************************************************)
(* Two runners on one database.  Each runner has its own SqliteStore,      *)
(* opened on the same database file, and the same registry; both run on    *)
(* the same context.  A runner calls init() and then migrate(), and        *)
(* migrate is taken step by step: the read of pending(), then for each     *)
(* pending migration the apply and the mark_applied.  The steps of the two *)
(* runners interleave freely: nothing in the runner or the store orders    *)
(* them.                                                                   *)
(***************************************************************************)
InitRace ==
    /\ conn = NewConnection
    /\ registry \in Registries
    /\ ctx = NewContext
    /\ runners = NoRunners
    /\ last = NoCall
    /\ rt = NoRoundTrip

\* runner.init()
RaceInit(i) ==
    /\ runners[i].pc = "idle"
    /\ \E sqlite_ok \in BOOLEAN :
          LET r == init(conn, sqlite_ok)
          IN  /\ conn' = r.conn
              /\ runners' = [runners EXCEPT ![i] =
                     IF r.ok THEN [@ EXCEPT !.pc = "ready"]
                     ELSE [@ EXCEPT !.pc = "halted", !.error = StoreError]]
    /\ UNCHANGED <<registry, ctx, last, rt>>

\* migrate reads pending(): the plan of this run.
RaceStart(i) ==
    /\ runners[i].pc = "ready"
    /\ LET plan == pending(registry, conn)
       IN  runners' = [runners EXCEPT ![i] =
               IF ~current_version(conn).ok
               THEN [@ EXCEPT !.pc = "halted", !.error = StoreError]
               ELSE [@ EXCEPT !.pc = IF plan = <<>> THEN "done" ELSE "apply",
                              !.plan = plan]]
    /\ UNCHANGED <<conn, registry, ctx, last, rt>>

\* migrate applies the next migration of its plan on the context.
RaceApply(i) ==
    /\ runners[i].pc = "apply"
    /\ \E execute_ok \in BOOLEAN :
          LET a == apply(Head(runners[i].plan), execute_ok)
          IN  /\ ctx' = Effects(ctx, a.executed)
              /\ runners' = [runners EXCEPT ![i] =
                     IF a.error = NoError THEN [@ EXCEPT !.pc = "record"]
                     ELSE [@ EXCEPT !.pc = "halted", !.error = a.error]]
    /\ UNCHANGED <<conn, registry, last, rt>>

\* migrate records the migration it has applied, and goes on to the next.
RaceRecord(i) ==
    /\ runners[i].pc = "record"
    /\ \E clock \in SystemTimes, sqlite_ok \in BOOLEAN :
          LET m == Head(runners[i].plan)
              rest == Tail(runners[i].plan)
              s == mark_applied(conn, Migration_version(m), Migration_name(m), clock,
                                sqlite_ok)
          IN  /\ conn' = s.conn
              /\ last' = StoreCall("mark_applied", Migration_version(m),
                                   Migration_name(m), sqlite_ok, s.ok, conn)
              /\ runners' = [runners EXCEPT ![i] =
                     IF ~s.ok THEN [@ EXCEPT !.pc = "halted", !.error = StoreError]
                     ELSE [@ EXCEPT !.pc = IF rest = <<>> THEN "done" ELSE "apply",
                                    !.plan = rest,
                                    !.count = @ + 1]]
    /\ UNCHANGED <<registry, ctx, rt>>

NextRace ==
    \E i \in Instances : RaceInit(i) \/ RaceStart(i) \/ RaceApply(i) \/ RaceRecord(i)

SpecRace == InitRace /\ [][NextRace]_vars

\* C18: however the steps of the two runners interleave, the ledger never holds
\* two records for one version: a mark_applied for a version that already has a
\* record fails with a store error, changes nothing, and the runner that made
\* it halts there.  (That the same up action can be executed twice all the same
\* is the state C18_Witness.)
C18_NoDoubleRecord ==
    /\ \A a, b \in conn.rows : AsU64(a.version) = AsU64(b.version) => a = b
    /\ \A j, k \in DOMAIN applied(conn).records :
          applied(conn).records[j].version = applied(conn).records[k].version => j = k
    /\ (last.op = "mark_applied" /\ last.version \in Recorded(last.before)) =>
          /\ last.error = StoreError
          /\ conn = last.before
          /\ \E i \in Instances :
                /\ runners[i].pc = "halted"
                /\ runners[i].error = StoreError
                /\ Migration_version(Head(runners[i].plan)) = last.version

\* Both runners read the same pending migration and both executed its up SQL;
\* the first recorded it, the second's mark_applied, which SQLite ran, was
\* rejected and that runner halted.
C18_Witness ==
    /\ last.op = "mark_applied"
    /\ last.fault = NoFault
    /\ last.error = StoreError
    /\ last.version \in ctx.redone
    /\ last.version \in Recorded(conn)
    /\ \E i, k \in Instances :
          /\ runners[i].pc = "halted" /\ runners[i].error = StoreError
          /\ runners[k].count >= 1

====
